---- MODULE Spec2Model ----
(***************************************************************************)
(* LRC Streaming Data Uploader (src/app.py).                               *)
(*                                                                         *)
(* Part 1 of the script normalises the rows of a raw spreadsheet into one  *)
(* record per (Uniquename, Course, Section) group.  Part 2 downloads the   *)
(* master JSON, aggregates the checked spreadsheet of one term into a      *)
(* fresh term summary, stores it under the term label, re-sorts the terms  *)
(* and uploads the whole document; an uploaded backup may then overwrite   *)
(* the master file.                                                        *)
(*                                                                         *)
(* Python strings are sequences of one-character strings, a pandas cell is *)
(* a record (NaN, a string or an integer), a Python dict is the sequence   *)
(* of its (key, value) pairs in insertion order.                           *)
(***************************************************************************)
EXTENDS Integers, Sequences, FiniteSets

----------------------------------------------------------------------------
(* Python str                                                              *)

LowerAlpha ==
  <<"a","b","c","d","e","f","g","h","i","j","k","l","m",
    "n","o","p","q","r","s","t","u","v","w","x","y","z">>

UpperAlpha ==
  <<"A","B","C","D","E","F","G","H","I","J","K","L","M",
    "N","O","P","Q","R","S","T","U","V","W","X","Y","Z">>

DigitChars == <<"0","1","2","3","4","5","6","7","8","9">>

IsSpace(c) == c \in {" ", "\t", "\n"}

IsDigit(c) == \E i \in 1..10 : DigitChars[i] = c

DigitVal(c) == (CHOOSE i \in 1..10 : DigitChars[i] = c) - 1

LowerChar(c) ==
  IF \E i \in 1..26 : UpperAlpha[i] = c
  THEN LowerAlpha[CHOOSE i \in 1..26 : UpperAlpha[i] = c]
  ELSE c

UpperChar(c) ==
  IF \E i \in 1..26 : LowerAlpha[i] = c
  THEN UpperAlpha[CHOOSE i \in 1..26 : LowerAlpha[i] = c]
  ELSE c

\* str.lower()
lower(s) == [i \in 1..Len(s) |-> LowerChar(s[i])]

\* str.upper()
upper(s) == [i \in 1..Len(s) |-> UpperChar(s[i])]

RECURSIVE lstrip(_)
lstrip(s) ==
  IF s # <<>> /\ IsSpace(Head(s)) THEN lstrip(Tail(s)) ELSE s

RECURSIVE rstrip(_)
rstrip(s) ==
  IF s # <<>> /\ IsSpace(s[Len(s)]) THEN rstrip(SubSeq(s, 1, Len(s) - 1)) ELSE s

\* str.strip()
strip(s) == rstrip(lstrip(s))

\* The leading run of non-blank characters of s.
RECURSIVE TakeToken(_)
TakeToken(s) ==
  IF s = <<>> \/ IsSpace(Head(s)) THEN <<>> ELSE <<Head(s)>> \o TakeToken(Tail(s))

\* str.split(): the maximal runs of non-blank characters, in order.
RECURSIVE split(_)
split(s) ==
  LET t == lstrip(s) IN
  IF t = <<>> THEN <<>>
  ELSE LET tok == TakeToken(t) IN <<tok>> \o split(SubSeq(t, Len(tok) + 1, Len(t)))

\* str.split(",")[0]: the text before the first comma.
RECURSIVE split_comma_first(_)
split_comma_first(s) ==
  IF s = <<>> \/ Head(s) = "," THEN <<>> ELSE <<Head(s)>> \o split_comma_first(Tail(s))

\* sub in s
contains(sub, s) ==
  \E i \in 1..(Len(s) - Len(sub) + 1) : SubSeq(s, i, i + Len(sub) - 1) = sub

\* The leading run of digits of s.
RECURSIVE TakeDigits(_)
TakeDigits(s) ==
  IF s = <<>> \/ ~IsDigit(Head(s)) THEN <<>> ELSE <<Head(s)>> \o TakeDigits(Tail(s))

\* re.search(r"\d+", s) and re.findall(r"\d+", s)[0]: the first maximal run of
\* digits of s, <<>> when s holds no digit (no match).
RECURSIVE first_digits(_)
first_digits(s) ==
  IF s = <<>> THEN <<>>
  ELSE IF IsDigit(Head(s)) THEN TakeDigits(s)
  ELSE first_digits(Tail(s))

\* str.isdigit(): non-empty and every character a digit.
isdigit(s) == s # <<>> /\ \A i \in 1..Len(s) : IsDigit(s[i])

\* int(s) of a string of digits.
RECURSIVE int_of(_)
int_of(s) ==
  IF s = <<>> THEN 0 ELSE 10 * int_of(SubSeq(s, 1, Len(s) - 1)) + DigitVal(s[Len(s)])

\* str(n) of a non-negative integer.
RECURSIVE str_of_int(_)
str_of_int(n) ==
  IF n < 10 THEN <<DigitChars[n + 1]>>
  ELSE str_of_int(n \div 10) \o <<DigitChars[(n % 10) + 1]>>

\* sep.join(parts)
RECURSIVE join(_, _)
join(sep, parts) ==
  IF parts = <<>> THEN <<>>
  ELSE IF Len(parts) = 1 THEN parts[1]
  ELSE parts[1] \o sep \o join(sep, Tail(parts))

\* Position of a character in code-point order (the characters the inputs use).
CharOrder ==
  <<"\t", "\n", " ", ",", "0","1","2","3","4","5","6","7","8","9", ":">>
    \o UpperAlpha \o LowerAlpha

Ord(c) == CHOOSE i \in 1..Len(CharOrder) : CharOrder[i] = c

\* s < t for Python strings: lexicographic by code point.
RECURSIVE str_lt(_, _)
str_lt(s, t) ==
  IF t = <<>> THEN FALSE
  ELSE IF s = <<>> THEN TRUE
  ELSE IF Head(s) = Head(t) THEN str_lt(Tail(s), Tail(t))
  ELSE Ord(Head(s)) < Ord(Head(t))

----------------------------------------------------------------------------
(* pandas cells                                                            *)

NaN == [kind |-> "nan", s |-> <<>>, n |-> 0]

Str(chars) == [kind |-> "str", s |-> chars, n |-> 0]

Num(k) == [kind |-> "int", s |-> <<>>, n |-> k]

\* pd.notna(c) / pd.isna(c)
notna(c) == c.kind # "nan"

isna(c) == c.kind = "nan"

\* str(c): "nan" for a missing cell, the digits of a number (a float's first
\* run of digits is that of its integer part).
py_str(c) ==
  CASE c.kind = "nan" -> <<"n","a","n">>
    [] c.kind = "str" -> c.s
    [] c.kind = "int" -> str_of_int(c.n)

\* Series.str.strip() on one cell: NaN for a cell that is no string.
str_strip(c) == IF c.kind = "str" THEN Str(strip(c.s)) ELSE NaN

\* Series.str.upper() on one cell.
str_upper(c) == IF c.kind = "str" THEN Str(upper(c.s)) ELSE NaN

\* Series.str.lower().str.contains(sub, na=False) on one cell.
str_lower_contains(c, sub) == c.kind = "str" /\ contains(sub, lower(c.s))

\* Order of group keys of one column: numbers, then strings, then NaN last.
cell_lt(a, b) ==
  CASE a.kind = "int" /\ b.kind = "int" -> a.n < b.n
    [] a.kind = "str" /\ b.kind = "str" -> str_lt(a.s, b.s)
    [] a.kind = "nan" -> FALSE
    [] b.kind = "nan" -> TRUE
    [] OTHER -> a.kind = "int"

\* int(c): the value, or no value (ValueError) for NaN and for text that is
\* not a number.  The texts of the inputs are runs of digits or of letters;
\* signs and digit separators, which int() also reads, do not occur in them.
int_ok(c) ==
  \/ c.kind = "int"
  \/ c.kind = "str" /\ isdigit(strip(c.s))

int_val(c) == IF c.kind = "int" THEN c.n ELSE int_of(strip(c.s))

----------------------------------------------------------------------------
(* Python dict: the sequence of its (key, value) pairs in insertion order  *)

DictKeys(d) == {d[i][1] : i \in 1..Len(d)}

DictHas(d, k) == \E i \in 1..Len(d) : d[i][1] = k

DictGet(d, k) == d[CHOOSE i \in 1..Len(d) : d[i][1] = k][2]

\* d[k] = v: an existing key keeps its place, a new key goes last.
DictSet(d, k, v) ==
  IF DictHas(d, k)
  THEN [i \in 1..Len(d) |-> IF d[i][1] = k THEN <<k, v>> ELSE d[i]]
  ELSE Append(d, <<k, v>>)

\* d.setdefault(k, v)
DictSetDefault(d, k, v) == IF DictHas(d, k) THEN d ELSE Append(d, <<k, v>>)

----------------------------------------------------------------------------
(* PART 1: raw rows to clean records                                       *)

TESTCOURSE == <<"t","e","s","t","c","o","u","r","s","e">>

UnknownSection ==
  <<"U","n","k","n","o","w","n"," ","S","e","c","t","i","o","n">>

\* df_raw[df_raw[C].notna() & df_raw[C].str.strip().ne("")]
BasicKeep(row) == notna(row.C) /\ str_strip(row.C) # Str(<<>>)

\* df[C] = df[C].str.strip().str.upper()
UpperCourse(row) == [row EXCEPT !.C = str_upper(str_strip(row.C))]

RECURSIVE MapUpperCourse(_)
MapUpperCourse(rows) ==
  IF rows = <<>> THEN <<>>
  ELSE <<UpperCourse(Head(rows))>> \o MapUpperCourse(Tail(rows))

NotTestCourse(row) == ~str_lower_contains(row.C, TESTCOURSE)

\* The cleaned frame df the groupby runs on.
CleanFrame(df_raw) ==
  SelectSeq(MapUpperCourse(SelectSeq(df_raw, BasicKeep)), NotTestCourse)

GroupKey(row) == <<row.U, row.C, row.S>>

key_lt(a, b) ==
  \/ cell_lt(a[1], b[1])
  \/ a[1] = b[1] /\ cell_lt(a[2], b[2])
  \/ a[1] = b[1] /\ a[2] = b[2] /\ cell_lt(a[3], b[3])

\* The keys of a set in ascending order (groupby sorts its group keys).
RECURSIVE SortKeys(_)
SortKeys(ks) ==
  IF ks = {} THEN <<>>
  ELSE LET m == CHOOSE k \in ks : \A o \in ks \ {k} : key_lt(k, o)
       IN <<m>> \o SortKeys(ks \ {m})


\* groupby without dropna=False: the keys with a missing part are dropped.
groupby_dropna(df) ==
  SortKeys({k \in {GroupKey(df[i]) : i \in 1..Len(df)} : \A n \in 1..3 : notna(k[n])})

\* df.groupby([U, C, S], dropna=False): every key that occurs, NaN included.
groupby(df) == SortKeys({GroupKey(df[i]) : i \in 1..Len(df)})

GroupRows(df, key) == SelectSeq(df, LAMBDA row : GroupKey(row) = key)

\* group[L].dropna().astype(str).str.strip().tolist()
RECURSIVE langs_of(_)
langs_of(group) ==
  IF group = <<>> THEN <<>>
  ELSE IF isna(Head(group).L) THEN langs_of(Tail(group))
  ELSE <<strip(py_str(Head(group).L))>> \o langs_of(Tail(group))

InSeq(x, seq) == \E i \in 1..Len(seq) : seq[i] = x

\* for ln in langs: if ln not in seen: seen.append(ln)
RECURSIVE dedup(_, _)
dedup(langs, seen) ==
  IF langs = <<>> THEN seen
  ELSE dedup(Tail(langs),
             IF InSeq(Head(langs), seen) THEN seen ELSE Append(seen, Head(langs)))

COMMA_SPACE == <<",", " ">>

language_of(group) == join(COMMA_SPACE, dedup(langs_of(group), <<>>))

\* students: the first run of digits of the first non-missing Enrollment.
students_of(group) ==
  LET non_null == SelectSeq(group, LAMBDA row : notna(row.E)) IN
  IF Len(non_null) > 0
  THEN LET digs == first_digits(py_str(non_null[1].E))
       IN IF digs # <<>> THEN int_of(digs) ELSE 0
  ELSE 0

\* section if pd.notna(section) and str(section).strip() else "Unknown Section"
sec_of(section) ==
  IF notna(section) /\ strip(py_str(section)) # <<>>
  THEN section ELSE Str(UnknownSection)

CleanRecord(df, key) ==
  LET group == GroupRows(df, key) IN
  [ Instructor       |-> key[1],
    Course           |-> key[2],
    Section          |-> sec_of(key[3]),
    Language         |-> Str(language_of(group)),
    Reservations     |-> Num(Len(group)),
    StudentsEnrolled |-> Num(students_of(group)) ]

\* The records list built by the groupby loop.
Normalize(df_raw) ==
  LET df   == CleanFrame(df_raw)
      keys == groupby(df)
  IN [i \in 1..Len(keys) |-> CleanRecord(df, keys[i])]

----------------------------------------------------------------------------
(* PART 2: clean records of one term to a term summary                     *)

PRACTICE == <<"p","r","a","c","t","i","c","e">>

NAN == <<"n","a","n">>

Unknown == <<"U","n","k","n","o","w","n">>

COLON_SPACE == <<":", " ">>

\* ("asianlan", "slavic", "asian")
SpecialDepts ==
  { <<"a","s","i","a","n","l","a","n">>,
    <<"s","l","a","v","i","c">>,
    <<"a","s","i","a","n">> }

\* code = str(row["Course"]).strip()
code_of(row) == strip(py_str(row.Course))

\* if not code or "practice" in code.lower(): continue
Skipped(row) == code_of(row) = <<>> \/ contains(PRACTICE, lower(code_of(row)))

\* raw_dept = code.split()[0].strip().lower()
raw_dept_of(row) == lower(strip(split(code_of(row))[1]))

\* str(lang_cell).split(",")[0].strip().split()
lang_tokens(row) == split(strip(split_comma_first(py_str(row.Language))))

\* The [0] of an empty token list raises IndexError.
LangIndexError(row) == notna(row.Language) /\ lang_tokens(row) = <<>>

\* first_lang, with <<>> for None (a token is never empty).
first_lang_of(row) ==
  IF isna(row.Language) THEN <<>>
  ELSE LET first_lang_raw == lang_tokens(row)[1]
       IN IF lower(first_lang_raw) # NAN THEN first_lang_raw ELSE <<>>


\* dept_key_of without the test of the department.
dept_key_any_dept(row) ==
  LET raw_dept   == raw_dept_of(row)
      first_lang == first_lang_of(row)
  IN IF first_lang # <<>>
     THEN upper(raw_dept \o COLON_SPACE \o first_lang)
     ELSE upper(raw_dept)

\* if raw_dept in (...) and first_lang: f"{raw_dept}: {first_lang}".upper()
\* else: raw_dept.upper()
dept_key_of(row) ==
  LET raw_dept   == raw_dept_of(row)
      first_lang == first_lang_of(row)
  IN IF raw_dept \in SpecialDepts /\ first_lang # <<>>
     THEN upper(raw_dept \o COLON_SPACE \o first_lang)
     ELSE upper(raw_dept)

\* m = re.search(r"\d+", code)
\* level = str((int(m.group()) // 100) * 100) if m else "Unknown"
level_of(row) ==
  LET m == first_digits(code_of(row))
  IN IF m # <<>> THEN str_of_int((int_of(m) \div 100) * 100) ELSE Unknown


\* RowRaises with a lenient reading of Reservations.
RowRaisesStudentsOnly(row) ==
  /\ ~Skipped(row)
  /\ \/ LangIndexError(row)
     \/ ~int_ok(row.StudentsEnrolled)

\* The row raises: IndexError at first_lang_raw, ValueError at int(...).
RowRaises(row) ==
  /\ ~Skipped(row)
  /\ \/ LangIndexError(row)
     \/ ~int_ok(row.StudentsEnrolled)
     \/ ~int_ok(row.Reservations)

EmptyTerm == [total_students |-> 0, total_reservations |-> 0, departments |-> <<>>]

EmptyDept == [levels |-> <<>>, total_students |-> 0, total_reservations |-> 0]

EmptyLevel == [students |-> 0, reservations |-> 0]


\* AddToLevel with "=" for "+=".
AddToLevelOverwrite(lvl, students, reservs) ==
  [students |-> students, reservations |-> reservs]

\* lvl["students"] += students; lvl["reservations"] += reservs
AddToLevel(lvl, students, reservs) ==
  [students |-> lvl.students + students, reservations |-> lvl.reservations + reservs]

\* dept["levels"].setdefault(level, ...), the level's sums, the department's.
AddToDept(dept, level, students, reservs) ==
  LET levels == DictSetDefault(dept.levels, level, EmptyLevel)
      lvl    == DictGet(levels, level)
  IN [ levels             |-> DictSet(levels, level, AddToLevel(lvl, students, reservs)),
       total_students     |-> dept.total_students + students,
       total_reservations |-> dept.total_reservations + reservs ]

\* One pass of the loop body over a row that is neither skipped nor raises.
Accumulate(term_json, row) ==
  LET dept_key == dept_key_of(row)
      level    == level_of(row)
      students == int_val(row.StudentsEnrolled)
      reservs  == int_val(row.Reservations)
      depts    == DictSetDefault(term_json.departments, dept_key, EmptyDept)
      dept     == DictGet(depts, dept_key)
  IN [ total_students     |-> term_json.total_students + students,
       total_reservations |-> term_json.total_reservations + reservs,
       departments        |-> DictSet(depts, dept_key,
                                      AddToDept(dept, level, students, reservs)) ]

\* for _, row in df_term.iterrows(): ... from term_json on.
RECURSIVE AggregateFrom(_, _)
AggregateFrom(term_json, rows) ==
  IF rows = <<>> THEN term_json
  ELSE IF Skipped(Head(rows)) THEN AggregateFrom(term_json, Tail(rows))
  ELSE AggregateFrom(Accumulate(term_json, Head(rows)), Tail(rows))

\* Some row of the table raises, which ends the script run.
AggregateRaises(df_term) == \E i \in 1..Len(df_term) : RowRaises(df_term[i])

\* term_json after the loop, for a table no row of which raises.
Aggregate(df_term) == AggregateFrom(EmptyTerm, df_term)

----------------------------------------------------------------------------
(* sort_terms_dict                                                         *)

WINTER == <<"W","i","n","t","e","r">>

SPSU == <<"S","p","S","u">>

FALL == <<"F","a","l","l">>

\* order_map.get(season, 3)
order_map(season) ==
  CASE season = WINTER -> 0
    [] season = SPSU -> 1
    [] season = FALL -> 2
    [] OTHER -> 3

\* parts[0] of a label without a token raises IndexError.
KeyRaises(term_str) == split(term_str) = <<>>


\* key_fn with the season before the year.
key_fn_season_first(term_str) ==
  LET parts  == split(term_str)
      season == parts[1]
      year   == IF Len(parts) > 1 THEN parts[2] ELSE <<"0">>
      y      == IF isdigit(year) THEN int_of(year) ELSE 0
  IN <<order_map(season), y>>

key_fn(term_str) ==
  LET parts  == split(term_str)
      season == parts[1]
      year   == IF Len(parts) > 1 THEN parts[2] ELSE <<"0">>
      y      == IF isdigit(year) THEN int_of(year) ELSE 0
  IN <<y, order_map(season)>>

\* (y1, r1) <= (y2, r2)
tuple_le(a, b) == a[1] < b[1] \/ (a[1] = b[1] /\ a[2] <= b[2])

\* One item put into a list sorted by key, after the items whose key is not
\* greater: sorted() is stable.
RECURSIVE InsertSorted(_, _)
InsertSorted(sorted, item) ==
  IF sorted = <<>> THEN <<item>>
  ELSE IF tuple_le(key_fn(Head(sorted)[1]), key_fn(item[1]))
       THEN <<Head(sorted)>> \o InsertSorted(Tail(sorted), item)
       ELSE <<item>> \o sorted

RECURSIVE SortedFrom(_, _)
SortedFrom(sorted, items) ==
  IF items = <<>> THEN sorted
  ELSE SortedFrom(InsertSorted(sorted, Head(items)), Tail(items))

SortRaises(terms) == \E i \in 1..Len(terms) : KeyRaises(terms[i][1])

\* dict(sorted(terms.items(), key=key_fn))
sort_terms_dict(terms) == SortedFrom(<<>>, terms)

----------------------------------------------------------------------------
(* The master file and the script run of PART 2                            *)

\* The bytes of a file of the blob store: whether they parse as JSON, the
\* indentation they are written with, and the document they hold.  The
\* documents of the inputs are JSON objects whose fields are mappings from
\* labels to summaries.
Bytes(indent, doc) == [valid |-> TRUE, indent |-> indent, doc |-> doc]

Garbage == [valid |-> FALSE, indent |-> 0, doc |-> <<>>]

NoBytes == [valid |-> FALSE, indent |-> -1, doc |-> <<>>]

\* json.loads(b.decode()) of bytes that parse.
json_loads(b) == b.doc

\* json.dumps(obj, indent=2).encode()
json_dumps(obj) == Bytes(2, obj)

\* " ".join(term_input.strip().split())
term_of(term_input) == join(<<" ">>, split(strip(term_input)))


\* SetTerm that adds the totals of the pass to those stored under the label.
SetTermAccumulate(md, t, tj) ==
  LET md1   == DictSetDefault(md, "terms", <<>>)
      terms == DictGet(md1, "terms")
      old   == IF DictHas(terms, t) THEN DictGet(terms, t) ELSE EmptyTerm
      sum   == [ tj EXCEPT !.total_students = @ + old.total_students,
                           !.total_reservations = @ + old.total_reservations ]
  IN DictSet(md1, "terms", DictSet(terms, t, sum))

\* SetTerm that starts the terms mapping anew.
SetTermAlone(md, t, tj) ==
  DictSet(DictSetDefault(md, "terms", <<>>), "terms", <<<<t, tj>>>>)

\* master_data.setdefault("terms", {}); master_data["terms"][term] = term_json
SetTerm(md, t, tj) ==
  LET md1 == DictSetDefault(md, "terms", <<>>)
  IN DictSet(md1, "terms", DictSet(DictGet(md1, "terms"), t, tj))


\* SortTerms that builds the document anew from the sorted terms.
SortTermsOnly(md) == << <<"terms", sort_terms_dict(DictGet(md, "terms"))>> >>

\* master_data["terms"] = sort_terms_dict(master_data["terms"])
SortTerms(md) == DictSet(md, "terms", sort_terms_dict(DictGet(md, "terms")))

\* pd.read_excel(checked, sheet_name=term) raises when no sheet has the name.
ReadRaises(file, t) == file.sheet # t

NoFile == [sheet |-> <<>>, rows |-> <<>>]

Sessions == {"s1", "s2"}

VARIABLES
  store,        \* the bytes of the master file on the drive
  serialized,   \* whether the uploads are serialized by their environment
  term,         \* st.session_state["term"] of each browser session
  step2,        \* st.session_state["step2"]
  pc,           \* where the session's script run stands
  fh,           \* the bytes the run downloaded
  master_data,  \* the run's parsed document
  checked,      \* the checked workbook the run read
  new_bytes,    \* the backup the run uploaded
  raw_rows,     \* PART 1 alone: the raw table
  clean_df,     \* PART 1 alone: the records built from it
  p1,           \* PART 1 alone: "uploaded" or "cleaned"
  term_rows,    \* the term loop alone: the checked table
  term_out,     \* the term loop alone: term_json after the loop
  p2            \* the term loop alone: "checked", "done" or "raised"

vars ==
  <<store, serialized, term, step2, pc, fh, master_data, checked, new_bytes,
    raw_rows, clean_df, p1, term_rows, term_out, p2>>

runVars == <<store, serialized, term, step2, pc, fh, master_data, checked, new_bytes>>

part1Vars == <<raw_rows, clean_df, p1>>

loopVars == <<term_rows, term_out, p2>>

\* Lines 104-106 and 172-173: the term of the session is the normalised text
\* of the term box; the Next button sets step2.
Part1(s, term_input, next) ==
  /\ pc[s] = "idle"
  /\ term' = [term EXCEPT ![s] = term_of(term_input)]
  /\ step2' = [step2 EXCEPT ![s] = step2[s] \/ next]
  /\ UNCHANGED <<store, serialized, pc, fh, master_data, checked, new_bytes>>
  /\ UNCHANGED <<part1Vars, loopVars>>

\* Lines 176-187: the whole master file is fetched and parsed.
Download(s) ==
  /\ pc[s] = "idle"
  /\ step2[s]
  /\ store.valid
  /\ fh' = [fh EXCEPT ![s] = store]
  /\ master_data' = [master_data EXCEPT ![s] = json_loads(store)]
  /\ pc' = [pc EXCEPT ![s] = "downloaded"]
  /\ UNCHANGED <<store, serialized, term, step2, checked, new_bytes>>
  /\ UNCHANGED <<part1Vars, loopVars>>

\* Line 187 raises on bytes that are no JSON: the run ends there.
DownloadRaises(s) ==
  /\ pc[s] = "idle"
  /\ step2[s]
  /\ ~store.valid
  /\ fh' = [fh EXCEPT ![s] = store]
  /\ pc' = [pc EXCEPT ![s] = "failed"]
  /\ UNCHANGED <<store, serialized, term, step2, master_data, checked, new_bytes>>
  /\ UNCHANGED <<part1Vars, loopVars>>

\* Lines 198-246: the checked workbook is aggregated, merged and uploaded.
MergeUpload(s, file) ==
  /\ pc[s] = "downloaded"
  /\ ~ReadRaises(file, term[s])
  /\ ~AggregateRaises(file.rows)
  /\ LET md == SetTerm(master_data[s], term[s], Aggregate(file.rows)) IN
       /\ ~SortRaises(DictGet(md, "terms"))
       /\ master_data' = [master_data EXCEPT ![s] = SortTerms(md)]
       /\ store' = json_dumps(SortTerms(md))
  /\ checked' = [checked EXCEPT ![s] = file]
  /\ pc' = [pc EXCEPT ![s] = "merged"]
  /\ UNCHANGED <<serialized, term, step2, fh, new_bytes>>
  /\ UNCHANGED <<part1Vars, loopVars>>

\* Lines 198-240 raise (no sheet of the term, a row of the loop, a label
\* without a token in the sort): the run ends before line 244.
MergeRaises(s, file) ==
  /\ pc[s] = "downloaded"
  /\ \/ /\ ReadRaises(file, term[s]) \/ AggregateRaises(file.rows)
        /\ UNCHANGED master_data
     \/ /\ ~ReadRaises(file, term[s])
        /\ ~AggregateRaises(file.rows)
        /\ LET md == SetTerm(master_data[s], term[s], Aggregate(file.rows)) IN
             /\ SortRaises(DictGet(md, "terms"))
             /\ master_data' = [master_data EXCEPT ![s] = md]
  /\ checked' = [checked EXCEPT ![s] = file]
  /\ pc' = [pc EXCEPT ![s] = "failed"]
  /\ UNCHANGED <<store, serialized, term, step2, fh, new_bytes>>
  /\ UNCHANGED <<part1Vars, loopVars>>


\* BackupOverwrite that parses the backup and writes it as a merge is written.
BackupOverwriteParsed(s, backup) ==
  /\ pc[s] = "merged"
  /\ new_bytes' = [new_bytes EXCEPT ![s] = backup]
  /\ store' = json_dumps(json_loads(backup))
  /\ pc' = [pc EXCEPT ![s] = "reverted"]
  /\ UNCHANGED <<serialized, term, step2, fh, master_data, checked>>
  /\ UNCHANGED <<part1Vars, loopVars>>

\* Lines 250-254: the uploaded backup replaces the master file.
BackupOverwrite(s, backup) ==
  /\ pc[s] = "merged"
  /\ new_bytes' = [new_bytes EXCEPT ![s] = backup]
  /\ store' = backup
  /\ pc' = [pc EXCEPT ![s] = "reverted"]
  /\ UNCHANGED <<serialized, term, step2, fh, master_data, checked>>
  /\ UNCHANGED <<part1Vars, loopVars>>

\* The script run ends (no checked file, no backup, or after an exception);
\* its locals are gone, the session state stays.
EndRun(s) ==
  /\ pc[s] \in {"downloaded", "merged", "reverted", "failed"}
  /\ pc' = [pc EXCEPT ![s] = "idle"]
  /\ fh' = [fh EXCEPT ![s] = NoBytes]
  /\ master_data' = [master_data EXCEPT ![s] = <<>>]
  /\ checked' = [checked EXCEPT ![s] = NoFile]
  /\ new_bytes' = [new_bytes EXCEPT ![s] = NoBytes]
  /\ UNCHANGED <<store, serialized, term, step2>>
  /\ UNCHANGED <<part1Vars, loopVars>>

\* Lines 125-157 on an uploaded raw table.
Part1Clean ==
  /\ p1 = "uploaded"
  /\ clean_df' = Normalize(raw_rows)
  /\ p1' = "cleaned"
  /\ UNCHANGED <<raw_rows, runVars, loopVars>>

\* Lines 202-236 on a checked table no row of which raises.
TermLoop ==
  /\ p2 = "checked"
  /\ ~AggregateRaises(term_rows)
  /\ term_out' = Aggregate(term_rows)
  /\ p2' = "done"
  /\ UNCHANGED <<term_rows, runVars, part1Vars>>

\* Lines 202-236 on a checked table a row of which raises.
TermLoopRaises ==
  /\ p2 = "checked"
  /\ AggregateRaises(term_rows)
  /\ p2' = "raised"
  /\ UNCHANGED <<term_rows, term_out, runVars, part1Vars>>

----------------------------------------------------------------------------
(* Inputs                                                                  *)

MaxRawRows == 3

MaxTermRows == 3

\* The tables of at most n rows drawn from a set of rows.
Tables(rows, n) == UNION {[1..k -> rows] : k \in 0..n}

SP == <<" ">>

Y2024 == <<"2","0","2","4">>

Y2025 == <<"2","0","2","5">>

Fall2024 == FALL \o SP \o Y2024

SpSu2024 == SPSU \o SP \o Y2024

Winter2025 == WINTER \o SP \o Y2025

Autumn2024 == <<"A","u","t","u","m","n">> \o SP \o Y2024

FallX == FALL \o SP \o <<"2","0","x","x">>

\* What the user types into the term box.
TermInputs == {Fall2024, SpSu2024, SP \o WINTER \o SP \o SP \o Y2025 \o SP}

ABC == Str(<<"a","b","c">>)

XYZ == Str(<<"x","y","z">>)

FRENCH220 == <<"F","R","E","N","C","H"," ","2","2","0">>

ASIANLAN101 == <<"A","S","I","A","N","L","A","N"," ","1","0","1">>

French == <<"F","r","e","n","c","h">>

German == <<"G","e","r","m","a","n">>

Japanese == <<"J","a","p","a","n","e","s","e">>

Sec1 == Str(<<"1">>)

RawRow(u, c, sec, l, e) == [U |-> u, C |-> c, S |-> sec, L |-> l, E |-> e]

\* Rows of a raw workbook: a course in two spellings, a missing and a blank
\* section, a repeated, a padded, a blank and a missing language, a test
\* course, a missing and a blank course.
RawRows ==
  { RawRow(ABC, Str(lower(FRENCH220)), Sec1, Str(French), Num(25)),
    RawRow(ABC, Str(FRENCH220 \o SP), Sec1, Str(French \o SP), Num(25)),
    RawRow(ABC, Str(FRENCH220), NaN, Str(German), NaN),
    RawRow(ABC, Str(FRENCH220), NaN, Str(SP), Str(<<"2","5"," ","s","t","u","d","e","n","t","s">>)),
    RawRow(ABC, Str(FRENCH220), Str(SP), NaN, Num(18)),
    RawRow(XYZ, Str(<<"T","e","s","t","C","o","u","r","s","e"," ","1">>), Sec1, Str(French), Num(3)),
    RawRow(XYZ, NaN, Sec1, Str(French), Num(3)),
    RawRow(XYZ, Str(SP), Sec1, Str(German), Num(3)) }

CleanRow(c, l, st, r) ==
  [ Instructor |-> ABC, Course |-> c, Section |-> Sec1, Language |-> l,
    Reservations |-> r, StudentsEnrolled |-> st ]

RowFrench == CleanRow(Str(FRENCH220), Str(French), Num(25), Num(2))

RowJapanese ==
  CleanRow(Str(ASIANLAN101), Str(Japanese \o COMMA_SPACE \o German), Num(10), Num(1))

RowAsianNoLang == CleanRow(Str(ASIANLAN101), NaN, Num(4), Num(1))

RowSlavicNan ==
  CleanRow(Str(<<"S","l","a","v","i","c"," ","s","e","m">>), Str(<<"N","a","N">>), Num(3), Num(1))

RowLowerFrench ==
  CleanRow(Str(<<"f","r","e","n","c","h"," ","3","5","0","b">>), Str(German \o SP \o French),
           Str(<<"1","2">>), Num(2))

RowPractice ==
  CleanRow(Str(<<"P","r","a","c","t","i","c","e"," ","1","0","1">>), Str(French), NaN, Num(1))

RowBadStudents == CleanRow(Str(FRENCH220), Str(French), Str(<<"a","b","c">>), Num(1))

RowBadReservations == CleanRow(Str(FRENCH220), Str(French), Num(5), NaN)

RowBlankLanguage == CleanRow(Str(FRENCH220), Str(COMMA_SPACE \o French), Num(5), Num(1))

\* Rows of a checked workbook.
CleanRows ==
  { RowFrench, RowJapanese, RowAsianNoLang, RowSlavicNan, RowLowerFrench,
    RowPractice, RowBadStudents, RowBadReservations, RowBlankLanguage }

File(sheet, rows) == [sheet |-> sheet, rows |-> rows]

D1 == <<RowFrench>>

D2 == <<RowJapanese, RowFrench, RowFrench>>

\* The checked workbooks a session may upload: two tables under each term,
\* and under one term a table with a skipped row whose count is missing, a
\* table whose last row has no number, and one whose last row has a language
\* without a first token.
CheckedFiles ==
  {File(t, d) : t \in {Fall2024, SpSu2024, Winter2025}, d \in {D1, D2}}
    \cup { File(Fall2024, <<RowFrench, RowPractice>>),
           File(Fall2024, <<RowFrench, RowBadStudents>>),
           File(Fall2024, <<RowFrench, RowBadReservations>>),
           File(Fall2024, <<RowJapanese, RowBlankLanguage>>) }

\* A summary somebody wrote by hand.
OldSummary == [total_students |-> 7, total_reservations |-> 3, departments |-> <<>>]

\* The master file a run may find: an empty object, or a document with a
\* field of its own and terms in no order.
InitStores ==
  { Bytes(2, <<>>),
    Bytes(0, << <<"archive", << <<Fall2024, OldSummary>> >> >>,
              <<"terms", << <<Winter2025, OldSummary>>, <<Autumn2024, OldSummary>>,
                            <<FALL, OldSummary>>, <<Fall2024, OldSummary>> >> >> >>) }

\* The backups a user may upload: terms in no order, bytes that are no JSON,
\* and a document one label of which is empty.
Backups ==
  { Bytes(4, << <<"terms", << <<Winter2025, OldSummary>>, <<FallX, OldSummary>> >> >> >>),
    Garbage,
    Bytes(2, << <<"terms", << <<<<>>, OldSummary>> >> >> >>) }

ConcTermInputs == {Fall2024, SpSu2024}

ConcFiles == {File(Fall2024, D1), File(SpSu2024, D1)}

ConcStores == {Bytes(2, <<>>)}

ConcBackups == {Garbage, Bytes(2, << <<"terms", << <<Winter2025, OldSummary>> >> >> >>)}

----------------------------------------------------------------------------
(* Specifications                                                          *)

RunIdle ==
  /\ term = [s \in Sessions |-> <<>>]
  /\ step2 = [s \in Sessions |-> FALSE]
  /\ pc = [s \in Sessions |-> "idle"]
  /\ fh = [s \in Sessions |-> NoBytes]
  /\ master_data = [s \in Sessions |-> <<>>]
  /\ checked = [s \in Sessions |-> NoFile]
  /\ new_bytes = [s \in Sessions |-> NoBytes]

Part1Idle == raw_rows = <<>> /\ clean_df = <<>> /\ p1 = "none"

LoopIdle == term_rows = <<>> /\ term_out = EmptyTerm /\ p2 = "none"

\* One step of the script run of session s.
Run(s, termInputs, files, backups) ==
  \/ \E ti \in termInputs, next \in BOOLEAN : Part1(s, ti, next)
  \/ Download(s)
  \/ DownloadRaises(s)
  \/ \E file \in files : MergeUpload(s, file)
  \/ \E file \in files : MergeRaises(s, file)
  \/ \E backup \in backups : BackupOverwrite(s, backup)
  \/ EndRun(s)

\* One user, one browser session.
Init ==
  /\ store \in InitStores
  /\ serialized = TRUE
  /\ RunIdle /\ Part1Idle /\ LoopIdle

Next == Run("s1", TermInputs, CheckedFiles, Backups)

Spec == Init /\ [][Next]_vars

\* A session may step while another run is under way only when nothing
\* serializes the uploads.
MayStep(s) == serialized => \A o \in Sessions \ {s} : pc[o] = "idle"

\* Two browser sessions, serialized by their environment or not.
InitConc ==
  /\ store \in ConcStores
  /\ serialized \in BOOLEAN
  /\ RunIdle /\ Part1Idle /\ LoopIdle

NextConc ==
  \E s \in Sessions :
    \/ \E ti \in ConcTermInputs, next \in BOOLEAN : MayStep(s) /\ Part1(s, ti, next)
    \/ MayStep(s) /\ Download(s)
    \/ MayStep(s) /\ DownloadRaises(s)
    \/ \E file \in ConcFiles : MayStep(s) /\ MergeUpload(s, file)
    \/ \E file \in ConcFiles : MayStep(s) /\ MergeRaises(s, file)
    \/ \E backup \in ConcBackups : MayStep(s) /\ BackupOverwrite(s, backup)
    \/ MayStep(s) /\ EndRun(s)

SpecConc == InitConc /\ [][NextConc]_vars

\* PART 1 on every raw table of at most MaxRawRows rows.
InitNorm ==
  /\ raw_rows \in Tables(RawRows, MaxRawRows)
  /\ clean_df = <<>>
  /\ p1 = "uploaded"
  /\ store = Bytes(2, <<>>) /\ serialized = TRUE /\ RunIdle /\ LoopIdle

NextNorm == Part1Clean

SpecNorm == InitNorm /\ [][NextNorm]_vars

\* The term loop on every checked table of at most MaxTermRows rows.
InitLoop ==
  /\ term_rows \in Tables(CleanRows, MaxTermRows)
  /\ term_out = EmptyTerm
  /\ p2 = "checked"
  /\ store = Bytes(2, <<>>) /\ serialized = TRUE /\ RunIdle /\ Part1Idle

NextLoop == TermLoop \/ TermLoopRaises

SpecLoop == InitLoop /\ [][NextLoop]_vars

----------------------------------------------------------------------------
(* Properties of the term loop (SpecLoop)                                  *)

RECURSIVE SumSeq(_)
SumSeq(ns) == IF ns = <<>> THEN 0 ELSE Head(ns) + SumSeq(Tail(ns))

SumsAgree(tj) ==
  LET depts == tj.departments IN
  /\ tj.total_students = SumSeq([i \in 1..Len(depts) |-> depts[i][2].total_students])
  /\ tj.total_reservations =
       SumSeq([i \in 1..Len(depts) |-> depts[i][2].total_reservations])
  /\ \A i \in 1..Len(depts) :
       LET dept == depts[i][2]
           lvls == dept.levels
       IN /\ dept.total_students = SumSeq([j \in 1..Len(lvls) |-> lvls[j][2].students])
          /\ dept.total_reservations =
               SumSeq([j \in 1..Len(lvls) |-> lvls[j][2].reservations])

\* C1: in the term summary a completed term loop builds, from any checked
\* table (the empty one and those with skipped rows included), the term's
\* total_students is the sum of its departments' total_students and each
\* department's total_students is the sum of its levels' students; the same
\* holds of total_reservations and reservations.
C1_SumInvariant == p2 = "done" => SumsAgree(term_out)

\* C1's case: a summary of two departments, one of them with two levels, built
\* from a table that also holds a row twice.
C1_Witness ==
  /\ p2 = "done"
  /\ Len(term_out.departments) = 2
  /\ \E i \in 1..2 : Len(term_out.departments[i][2].levels) = 2
  /\ term_out.total_students > 0

SpecialFamilies ==
  { <<"A","S","I","A","N","L","A","N">>, <<"S","L","A","V","I","C">>,
    <<"A","S","I","A","N">> }

\* The claim's words: the record is skipped when its course is blank or holds
\* "practice" in any case.
C8_Skipped(row) ==
  LET course == strip(py_str(row.Course))
  IN Len(course) = 0 \/ contains(upper(PRACTICE), upper(course))

\* The claim's words: the first language is the first blank-delimited token of
\* the text before the first comma, absent when the language is missing or
\* the token is "nan" in any case.
C8_HasFirstLanguage(row) ==
  /\ row.Language.kind # "nan"
  /\ upper(split(split_comma_first(py_str(row.Language)))[1]) # <<"N","A","N">>

C8_ExpectedKey(row) ==
  LET family == upper(split(py_str(row.Course))[1])
  IN IF family \in SpecialFamilies /\ C8_HasFirstLanguage(row)
     THEN family \o <<":", " ">>
            \o upper(split(split_comma_first(py_str(row.Language)))[1])
     ELSE family

\* C8: the department keys of a summary the term loop builds are, for its
\* records that are not skipped, uppercase(raw key + ": " + first language)
\* when the raw key is asianlan, slavic or asian and a first language was
\* extracted, and uppercase(raw key) otherwise; so every key is uppercase and
\* only a key of the three families carries a ": LANGUAGE" suffix.
C8_DepartmentKeys ==
  p2 = "done" =>
    /\ DictKeys(term_out.departments) =
         { C8_ExpectedKey(term_rows[i]) :
             i \in {j \in 1..Len(term_rows) : ~C8_Skipped(term_rows[j])} }
    /\ \A k \in DictKeys(term_out.departments) :
         /\ \A i \in 1..Len(k) : \A j \in 1..26 : k[i] # LowerAlpha[j]
         /\ contains(<<":", " ">>, k) =>
              \E fam \in SpecialFamilies :
                SubSeq(k, 1, Len(fam) + 2) = fam \o <<":", " ">>

\* C8's case: a summary with a suffixed key of a special family, the bare key
\* of a special family whose language is "NaN", and the key of a lower-case
\* course of another department that has a language.
C8_Witness ==
  /\ p2 = "done"
  /\ DictKeys(term_out.departments) =
       { <<"A","S","I","A","N","L","A","N",":"," ","J","A","P","A","N","E","S","E">>,
         <<"S","L","A","V","I","C">>,
         <<"F","R","E","N","C","H">> }
  /\ \E i \in 1..Len(term_rows) : term_rows[i] = RowLowerFrench

----------------------------------------------------------------------------
(* Properties of PART 1 (SpecNorm)                                         *)

\* The claim's words: a row is kept unless its course is missing, blank, or
\* holds "testcourse" in any case.
C6_Kept(row) ==
  /\ row.C.kind = "str"
  /\ strip(row.C.s) # <<>>
  /\ ~contains(upper(TESTCOURSE), upper(row.C.s))

C6_Triple(row) == <<row.U, Str(upper(strip(row.C.s))), row.S>>

C6_KeptRows == {i \in 1..Len(raw_rows) : C6_Kept(raw_rows[i])}

C6_Triples == {C6_Triple(raw_rows[i]) : i \in C6_KeptRows}

C6_Count(k) == Cardinality({i \in C6_KeptRows : C6_Triple(raw_rows[i]) = k})

C6_SectionOut(sec) ==
  IF sec.kind = "nan" \/ (sec.kind = "str" /\ strip(sec.s) = <<>>)
  THEN Str(UnknownSection) ELSE sec

RECURSIVE C6_SumReservations(_)
C6_SumReservations(recs) ==
  IF recs = <<>> THEN 0 ELSE Head(recs).Reservations.n + C6_SumReservations(Tail(recs))

\* C6: PART 1 emits one record per distinct (person, trimmed upper-case course,
\* section) of the kept rows, a missing section being a key of its own; the
\* record's Reservations is the number of kept rows of its group, and the
\* Reservations of all records add up to the number of kept rows.
C6_Grouping ==
  p1 = "cleaned" =>
    /\ Len(clean_df) = Cardinality(C6_Triples)
    /\ \A k \in C6_Triples :
         \E i \in 1..Len(clean_df) :
           /\ clean_df[i].Instructor = k[1]
           /\ clean_df[i].Course = k[2]
           /\ clean_df[i].Section = C6_SectionOut(k[3])
           /\ clean_df[i].Reservations = Num(C6_Count(k))
    /\ C6_SumReservations(clean_df) = Cardinality(C6_KeptRows)

\* C6's case: two rows of one group spelt differently and a row with a missing
\* section give two records, with 2 and 1 reservations.
C6_Witness ==
  /\ p1 = "cleaned"
  /\ Len(raw_rows) = 3
  /\ \E i \in 1..3 : raw_rows[i].S = NaN /\ C6_Kept(raw_rows[i])
  /\ Len(clean_df) = 2
  /\ \E i, j \in 1..2 :
       /\ clean_df[i].Reservations = Num(2) /\ clean_df[i].Section = Sec1
       /\ clean_df[j].Reservations = Num(1) /\ clean_df[j].Section = Str(UnknownSection)

\* The claim's words: the group's languages in row order, trimmed, the missing
\* and the empty ones dropped.
RECURSIVE C7_Languages(_, _)
C7_Languages(rows, k) ==
  IF rows = <<>> THEN <<>>
  ELSE LET row  == Head(rows)
           rest == C7_Languages(Tail(rows), k)
       IN IF C6_Kept(row) /\ C6_Triple(row) = k /\ row.L.kind = "str"
             /\ strip(row.L.s) # <<>>
          THEN <<strip(row.L.s)>> \o rest
          ELSE rest

\* The first occurrences of a list, in order.
RECURSIVE C7_FirstOccurrences(_)
C7_FirstOccurrences(l) ==
  IF l = <<>> THEN <<>>
  ELSE LET init == C7_FirstOccurrences(SubSeq(l, 1, Len(l) - 1))
       IN IF \E i \in 1..(Len(l) - 1) : l[i] = l[Len(l)] THEN init
          ELSE Append(init, l[Len(l)])

C7_Expected(k) == join(<<",", " ">>, C7_FirstOccurrences(C7_Languages(raw_rows, k)))

\* C7: the Language of a group's record is the group's language values in row
\* order, each trimmed, the missing and the empty-after-trimming dropped, the
\* repeats dropped after their first occurrence, joined with ", "; it never
\* holds an empty element.
C7_Language ==
  p1 = "cleaned" =>
    \A k \in C6_Triples :
      \E i \in 1..Len(clean_df) :
        /\ clean_df[i].Instructor = k[1]
        /\ clean_df[i].Course = k[2]
        /\ clean_df[i].Section = C6_SectionOut(k[3])
        /\ clean_df[i].Language = Str(C7_Expected(k))

----------------------------------------------------------------------------
(* Properties of the script run (Spec, SpecConc)                           *)

\* The terms mapping of a parsed document, empty when it has none.
TermsOf(doc) == IF DictHas(doc, "terms") THEN DictGet(doc, "terms") ELSE <<>>

\* The terms mapping the bytes of a master file hold.
TermsIn(b) == IF b.valid THEN TermsOf(b.doc) ELSE <<>>

LabelsIn(b) == DictKeys(TermsIn(b))

\* The claim's words: the students of the records that are not skipped.
RECURSIVE C2_Students(_)
C2_Students(rows) ==
  IF rows = <<>> THEN 0
  ELSE (IF C8_Skipped(Head(rows)) THEN 0 ELSE int_val(Head(rows).StudentsEnrolled))
         + C2_Students(Tail(rows))

\* C2: after a merge, whatever was stored under the term label before (by an
\* earlier upload of the same term or by hand), the term's summary in the
\* document and in the master file is the one derived from the table of this
\* upload alone, from zeroed totals and no departments.
C2_ReuploadReplaces ==
  \A s \in Sessions :
    pc[s] = "merged" =>
      /\ store = json_dumps(master_data[s])
      /\ DictHas(TermsIn(store), term[s])
      /\ DictGet(TermsIn(store), term[s]) = AggregateFrom(EmptyTerm, checked[s].rows)
      /\ DictGet(TermsIn(store), term[s]).total_students = C2_Students(checked[s].rows)

\* C2's case: table D2 merged under a label whose summary in the downloaded
\* file was the one an earlier upload of D1 had stored.
C2_Witness ==
  \E s \in Sessions :
    /\ pc[s] = "merged"
    /\ checked[s].rows = D2
    /\ DictHas(TermsIn(fh[s]), term[s])
    /\ DictGet(TermsIn(fh[s]), term[s]) = Aggregate(D1)
    /\ DictGet(TermsIn(store), term[s]).total_students = 60

\* The claim's words: the chronological key of a label.
C3_Rank(season) ==
  IF season = <<"W","i","n","t","e","r">> THEN 0
  ELSE IF season = <<"S","p","S","u">> THEN 1
  ELSE IF season = <<"F","a","l","l">> THEN 2
  ELSE 3

C3_Key(label) ==
  LET tokens == split(label)
      year   == IF Len(tokens) >= 2 /\ isdigit(tokens[2]) THEN int_of(tokens[2]) ELSE 0
      rank   == IF Len(tokens) >= 1 THEN C3_Rank(tokens[1]) ELSE 3
  IN <<year, rank>>

C3_Ascending(terms) ==
  \A i, j \in 1..Len(terms) :
    i < j =>
      LET a == C3_Key(terms[i][1])
          b == C3_Key(terms[j][1])
      IN a[1] < b[1] \/ (a[1] = b[1] /\ a[2] <= b[2])

\* C3 as stated: whenever the master file changes, the terms mapping it then
\* holds is in ascending order of (year, season rank).
C3_SortedAfterAnyMutation == [][store' # store => C3_Ascending(TermsIn(store'))]_vars

\* C3 as amended: after every term merge, for any prior content of the master
\* file and any term label, the terms mapping that is uploaded is in ascending
\* order of (year, season rank).
C3_SortedAfterMerge ==
  \A s \in Sessions :
    pc[s] = "merged" =>
      /\ store = json_dumps(master_data[s])
      /\ C3_Ascending(TermsIn(store))

\* C3's case: a merge into a file whose terms were in no order, with a label
\* without a year and a season that is none of the three.
C3_Witness ==
  \E s \in Sessions :
    /\ pc[s] = "merged"
    /\ ~C3_Ascending(TermsIn(fh[s]))
    /\ [i \in 1..Len(TermsIn(store)) |-> TermsIn(store)[i][1]] =
         <<FALL, SpSu2024, Fall2024, Autumn2024, Winter2025>>

C4_Unparsable(cell) ==
  \/ cell.kind = "nan"
  \/ cell.kind = "str" /\ ~isdigit(strip(cell.s))

C4_BadRow(row) == C4_Unparsable(row.StudentsEnrolled) \/ C4_Unparsable(row.Reservations)

\* C4 as stated: a run whose checked table has any record with a Students
\* Enrolled or Reservations field that is no integer ends without an upload,
\* the master file being what the run downloaded.
C4_AnyBadRecordAborts ==
  \A s \in Sessions :
    (\E i \in 1..Len(checked[s].rows) : C4_BadRow(checked[s].rows[i])) =>
      pc[s] = "failed" /\ store = fh[s]

\* C4 as amended: a run whose checked table has a record that is not skipped
\* (its course neither blank nor holding "practice") with a Students Enrolled
\* or Reservations field that is no integer ends without an upload, the master
\* file being byte for byte what the run downloaded, however many records
\* before it were accumulated.
C4_BadRecordAborts ==
  \A s \in Sessions :
    (\E i \in 1..Len(checked[s].rows) :
        ~C8_Skipped(checked[s].rows[i]) /\ C4_BadRow(checked[s].rows[i])) =>
      pc[s] = "failed" /\ store = fh[s]

\* C4's case: the run failed on a table whose first record was accumulated
\* and whose second has no number, over a file that holds terms.
C4_Witness ==
  \E s \in Sessions :
    /\ pc[s] = "failed"
    /\ Len(checked[s].rows) = 2
    /\ ~C4_BadRow(checked[s].rows[1]) /\ ~C8_Skipped(checked[s].rows[1])
    /\ C4_BadRow(checked[s].rows[2])
    /\ checked[s].sheet = term[s]
    /\ store = fh[s]
    /\ Len(TermsIn(store)) > 0

\* C9: a merge of term T changes only terms[T]: every other label of the
\* downloaded file is there afterwards with the same summary, no label but T
\* is added or removed, and every other top-level field is written back
\* unchanged.
C9_MergeFrame ==
  \A s \in Sessions :
    pc[s] = "merged" =>
      LET before == json_loads(fh[s])
          after  == json_loads(store)
      IN /\ store.valid
         /\ DictKeys(TermsOf(after)) = DictKeys(TermsOf(before)) \cup {term[s]}
         /\ \A l \in DictKeys(TermsOf(before)) \ {term[s]} :
              DictGet(TermsOf(after), l) = DictGet(TermsOf(before), l)
         /\ DictKeys(after) = DictKeys(before) \cup {"terms"}
         /\ \A k \in DictKeys(before) \ {"terms"} : DictGet(after, k) = DictGet(before, k)
         /\ Len(after) = Cardinality(DictKeys(after))

\* C9's case: a new label merged into a file with a field of its own and
\* other labels, whose order the merge changes.
C9_Witness ==
  \E s \in Sessions :
    /\ pc[s] = "merged"
    /\ DictHas(json_loads(fh[s]), "archive")
    /\ ~DictHas(TermsIn(fh[s]), term[s])
    /\ Len(TermsIn(fh[s])) >= 2
    /\ SubSeq(TermsIn(store), 1, Len(TermsIn(fh[s]))) # TermsIn(fh[s])

\* C10: a backup overwrites the master file only in a run that has uploaded
\* its merge, which the file then holds; after the overwrite the file is the
\* uploaded backup, byte for byte, and holds the run's term only if the
\* backup does.
C10_BackupAfterMerge ==
  [][\A s \in Sessions :
       (pc[s] # "reverted" /\ pc'[s] = "reverted") =>
         /\ pc[s] = "merged"
         /\ store = json_dumps(master_data[s])
         /\ DictHas(TermsIn(store), term[s])
         /\ store' = new_bytes'[s]
         /\ (term[s] \in LabelsIn(store')) = (term[s] \in LabelsIn(new_bytes'[s]))]_vars

\* C10's case: the file is a backup that is not indented as a merge writes
\* it, whose terms are in no order and lack the term the run merged.
C10_Witness ==
  \E s \in Sessions :
    /\ pc[s] = "reverted"
    /\ store = new_bytes[s]
    /\ store.valid /\ store.indent # 2
    /\ ~C3_Ascending(TermsIn(store))
    /\ DictHas(TermsOf(master_data[s]), term[s])
    /\ term[s] \notin LabelsIn(store)

\* C5: a merge writes the labels of the file as the run downloaded it plus its
\* own term, whatever the file holds by then: the term another run uploaded
\* in between is missing afterwards.  When the runs are serialized, no label
\* of the file is lost by a merge.
C5_LastWriteWins ==
  [][\A s \in Sessions :
       (pc[s] = "downloaded" /\ pc'[s] = "merged") =>
         /\ LabelsIn(store') = LabelsIn(fh[s]) \cup {term[s]}
         /\ serialized => LabelsIn(store) \subseteq LabelsIn(store')]_vars

\* C5's case: two runs downloaded the same file and merged different terms;
\* the file holds the later writer's document and not the other's term.
C5_Witness ==
  \E s, o \in Sessions :
    /\ ~serialized
    /\ s # o
    /\ pc[s] = "merged" /\ pc[o] = "merged"
    /\ fh[s] = fh[o]
    /\ term[s] # term[o]
    /\ store = json_dumps(master_data[o])
    /\ DictHas(TermsOf(master_data[s]), term[s])
    /\ term[s] \notin LabelsIn(store)

====
